---- MODULE Spec2Model ----
(***************************************************************************)
(* CharPointer_UTF32 (src/src/text/juce_CharPointer_UTF32.h): a cursor     *)
(* over a caller-owned, null-terminated buffer of 32-bit code units.       *)
(*                                                                         *)
(* The heap is a function from addresses to code units; a cursor is its    *)
(* one field `data`, an address.  Every method is translated to an         *)
(* operator on (heap, data) that computes what the method's body computes, *)
(* and every specification below applies those operators in its actions.   *)
(***************************************************************************)
EXTENDS Integers, Sequences, FiniteSets, TLC

VARIABLES
    mem,     \* the heap: address -> code unit
    data,    \* the `data` field of the cursors of the sequential scenarios
    last,    \* the last call made: its name, argument, cursor and result
    run,     \* the destination writes made since the destination was fresh
    shared,  \* the `data` field of the cursor the threads share
    cur,     \* per thread: the `data` field of its local cursor
    pc,      \* per thread: where it is in its code
    got,     \* per thread: the pointer it took from the shared cursor (the
             \* cursor atomicSwap returned, or the copy a reader made)
    seen     \* per thread: the characters it has read through its cursor

vars == <<mem, data, last, run, shared, cur, pc, got, seen>>

-----------------------------------------------------------------------------
(* Bounds of the model.                                                    *)

MaxLen == 3        \* longest string a buffer of the scan/write scenarios holds
MaxChar == 2       \* code points used by the texts: 1..MaxChar
MaxLimit == 5      \* largest maxCharsToCount passed
CopyLen == 2       \* longest source text of the write scenarios
PubLen == 2        \* longest text of a published buffer
NumReaders == 2    \* threads reading through the shared cursor
NumSwappers == 4   \* threads calling atomicSwap on the same cursor

(* sizeof (CharType): CharType is juce_wchar, a 32-bit code unit.           *)
unitWidth == 4

-----------------------------------------------------------------------------
(* Memory layout: buffers of BufCap units, each followed by one unit that  *)
(* belongs to nobody (a write there is a write out of bounds).             *)

BufCap == MaxLen + 1
Stride == BufCap + 1
Base(r) == r * Stride
Guard(r) == Base(r) + BufCap
Fill == MaxChar + 1          \* what an unwritten unit happens to hold
Chars == 1 .. MaxChar
Units == 0 .. Fill

Min(a, b) == IF a < b THEN a ELSE b

(* The well-formedness the cursor contract asks of the caller: a zero unit *)
(* is reachable from p before the end of p's buffer.                       *)
Terminated(m, p) ==
    \E i \in p .. Guard(p \div Stride) - 1 : m[i] = 0

(* Number of characters strictly before the first terminator, stated       *)
(* declaratively (what the scans are checked against).                     *)
CharsBefore(m, p) ==
    CHOOSE n \in 0 .. BufCap :
        /\ m[p + n] = 0
        /\ \A i \in 0 .. n - 1 : m[p + i] # 0

(* The text at p as a sequence, without its terminator.                    *)
TextAt(m, p) == [i \in 1 .. CharsBefore(m, p) |-> m[p + i - 1]]

-----------------------------------------------------------------------------
(* The methods of CharPointer_UTF32.                                       *)

(* operator== : a pointer comparison.                                      *)
opEquals(d, other) == d = other

(* operator!= : the body returns data == other.data.                       *)
opNotEquals(d, other) == d = other

(* The dereference operator and isEmpty.                                   *)
deref(m, d) == m[d]
isEmpty(m, d) == m[d] = 0

(* operator++ / operator-- : move the pointer one unit.                    *)
increment(d) == d + 1
decrement(d) == d - 1

(* getAndAdvance : return data[0], then ++data.                            *)
getAndAdvance(m, d) == [c |-> m[d], data |-> d + 1]

(* length : n = 0; while (data[n] != 0) ++n; return n.                     *)
RECURSIVE lengthLoop(_, _, _)
lengthLoop(m, d, n) ==
    IF m[d + n] # 0 THEN lengthLoop(m, d, n + 1) ELSE n

lengthCountsTerminator(m, d) == lengthLoop(m, d, 0) + 1
length(m, d) == lengthLoop(m, d, 0)

(* CharacterFunctions::lengthUpTo : counts characters before the           *)
(* terminator, stopping early once the cap is reached.                     *)
RECURSIVE CharacterFunctions_lengthUpTo(_, _, _, _)
CharacterFunctions_lengthUpTo(m, text, maxCharsToCount, len) ==
    IF len < maxCharsToCount /\ getAndAdvance(m, text).c # 0
    THEN CharacterFunctions_lengthUpTo(m, getAndAdvance(m, text).data,
                                       maxCharsToCount, len + 1)
    ELSE len

lengthUpToIgnoresCap(m, d, maxCharsToCount) == length(m, d)
lengthUpTo(m, d, maxCharsToCount) ==
    CharacterFunctions_lengthUpTo(m, d, maxCharsToCount, 0)

(* sizeInBytes : sizeof (CharType) * (length() + 1).                       *)
sizeInBytesWithoutTerminator(m, d) == unitWidth * length(m, d)
sizeInBytes(m, d) == unitWidth * (length(m, d) + 1)

(* getBytesRequiredFor (text) : sizeof (CharType) * text.length().         *)
getBytesRequiredFor(m, text) == unitWidth * length(m, text)

(* indexOf (charToFind) : first i with data[i] == charToFind, scanning     *)
(* while data[i] != 0; -1 when the terminator comes first.                 *)
RECURSIVE indexOfLoop(_, _, _, _)
indexOfLoop(m, d, charToFind, i) ==
    IF m[d + i] # 0
    THEN IF m[d + i] = charToFind THEN i
         ELSE indexOfLoop(m, d, charToFind, i + 1)
    ELSE -1

RECURSIVE indexOfTestsBeforeTerminatorLoop(_, _, _, _)
indexOfTestsBeforeTerminatorLoop(m, d, charToFind, i) ==
    IF m[d + i] = charToFind THEN i
    ELSE IF m[d + i] # 0
         THEN indexOfTestsBeforeTerminatorLoop(m, d, charToFind, i + 1)
         ELSE -1

indexOfTestsBeforeTerminator(m, d, charToFind) ==
    indexOfTestsBeforeTerminatorLoop(m, d, charToFind, 0)
indexOf(m, d, charToFind) == indexOfLoop(m, d, charToFind, 0)

(* write : data[0] = charToWrite, then ++data.                             *)
writeThenTerminates(m, d, charToWrite) ==
    [mem |-> [m EXCEPT ![d] = charToWrite, ![d + 1] = 0], data |-> d + 1]
write(m, d, charToWrite) ==
    [mem |-> [m EXCEPT ![d] = charToWrite], data |-> d + 1]

(* writeNull : data[0] = 0.                                                *)
writeNull(m, d) == [mem |-> [m EXCEPT ![d] = 0], data |-> d]

(* writeAll (const CharPointer_UTF32& src) :                               *)
(*   s = src.data; while ((data[0] = s[0]) != 0) { ++data; ++s; }          *)
RECURSIVE writeAllLoop(_, _, _)
writeAllLoop(m, d, s) ==
    LET stored == [m EXCEPT ![d] = m[s]]
    IN  IF stored[d] # 0
        THEN writeAllLoop(stored, d + 1, s + 1)
        ELSE [mem |-> stored, data |-> d]

writeAllAdvancesPastTerminator(m, d, src) ==
    [mem |-> writeAllLoop(m, d, src).mem,
     data |-> writeAllLoop(m, d, src).data + 1]
writeAll(m, d, src) == writeAllLoop(m, d, src)

(* CharacterFunctions::copyAll : readAndAdvance from src and write into    *)
(* dest until src reaches its terminator; writes no terminator.            *)
RECURSIVE CharacterFunctions_copyAll(_, _, _)
CharacterFunctions_copyAll(m, dest, src) ==
    LET read == getAndAdvance(m, src)
    IN  IF read.c = 0
        THEN [mem |-> m, data |-> dest]
        ELSE CharacterFunctions_copyAll(write(m, dest, read.c).mem,
                                        write(m, dest, read.c).data, read.data)

(* template writeAll (const CharPointer& src) : copyAll on this and src.   *)
writeAllGeneric(m, d, src) == CharacterFunctions_copyAll(m, d, src)

(* CharacterFunctions::copyWithCharLimit : copies at most maxChars - 1     *)
(* characters, then always writes a terminator.                            *)
RECURSIVE CharacterFunctions_copyWithCharLimit(_, _, _, _)
CharacterFunctions_copyWithCharLimit(m, dest, src, maxChars) ==
    LET read == getAndAdvance(m, src)
    IN  IF maxChars - 1 > 0 /\ read.c # 0
        THEN CharacterFunctions_copyWithCharLimit(
                 write(m, dest, read.c).mem, write(m, dest, read.c).data,
                 read.data, maxChars - 1)
        ELSE writeNull(m, dest)

(* writeWithCharLimit : copyWithCharLimit on this, src and maxChars.       *)
writeWithCharLimit(m, d, src, maxChars) ==
    CharacterFunctions_copyWithCharLimit(m, d, src, maxChars)

(* compare (const CharPointer_UTF32& other) : wcscmp (data, other.data),   *)
(* of which only the sign is specified.                                    *)
RECURSIVE wcscmp(_, _, _)
wcscmp(m, s1, s2) ==
    IF m[s1] # m[s2]
    THEN IF m[s1] < m[s2] THEN -1 ELSE 1
    ELSE IF m[s1] = 0 THEN 0 ELSE wcscmp(m, s1 + 1, s2 + 1)

compare(m, d, other) == wcscmp(m, d, other)

(* Copy constructor and operator= : data = other.data.                     *)
copy(other) == other

(* Atomic<CharType*>::exchange on the storage slot: one indivisible step   *)
(* that stores the new pointer and yields the one held before.             *)
exchange(slot, newValue) == [stored |-> newValue, previous |-> slot]

(* atomicSwap (newValue) :                                                 *)
(*   return CharPointer_UTF32 (atomic (data).exchange (newValue.data)).    *)
atomicSwapTorn(d, newValue) ==
    [data |-> ((d \div 2) * 2) + (newValue % 2), returned |-> d]
atomicSwapReturnsNew(d, newValue) ==
    [data |-> newValue, returned |-> newValue]
atomicSwapOnlyLoads(d, newValue) ==
    [data |-> d, returned |-> d]
atomicSwap(d, newValue) ==
    [data |-> exchange(d, newValue).stored,
     returned |-> exchange(d, newValue).previous]

-----------------------------------------------------------------------------
(* Scans: one terminated buffer, a cursor `a` moving over it, a copy `b`   *)
(* of an earlier position of `a`, and the read-only methods applied to a.  *)

(* Bookkeeping records; a field a call does not use holds 0.               *)
Call(op, arg, at, r) == [op |-> op, arg |-> arg, at |-> at, ret |-> r]
NoCall == Call("none", 0, 0, 0)
NoRun == [op |-> "none", start |-> 0, chars |-> <<>>, closed |-> FALSE]

(* A heap of `size` units whose buffer 0 holds the n units t (any of which *)
(* may be zero) and then a zero; every other unit is unwritten.            *)
Heap(size, t, n) ==
    [i \in 0 .. size - 1 |-> IF i < n THEN t[i] ELSE IF i = n THEN 0 ELSE Fill]

ScanTexts ==
    { Heap(Stride, t, MaxLen) : t \in [0 .. MaxLen - 1 -> 0 .. MaxChar] }

InitScan ==
    /\ mem \in ScanTexts
    /\ data = [a |-> Base(0), b |-> Base(0)]
    /\ last = NoCall
    /\ run = NoRun
    /\ shared = 0
    /\ cur = <<>>
    /\ pc = <<>>
    /\ got = <<>>
    /\ seen = <<>>

ScanFrame == UNCHANGED <<mem, run, shared, cur, pc, got, seen>>

(* ++a, the caller not moving past the terminator.                         *)
Increment ==
    /\ ~ isEmpty(mem, data.a)
    /\ data' = [data EXCEPT !.a = increment(data.a)]
    /\ last' = NoCall
    /\ ScanFrame

(* --a, the caller not moving before the start.                            *)
Decrement ==
    /\ data.a > Base(0)
    /\ data' = [data EXCEPT !.a = decrement(data.a)]
    /\ last' = NoCall
    /\ ScanFrame

(* b = a (operator=).                                                      *)
Assign ==
    /\ data' = [data EXCEPT !.b = data.a]
    /\ last' = NoCall
    /\ ScanFrame

CallLength ==
    /\ last' = Call("length", 0, data.a, length(mem, data.a))
    /\ UNCHANGED data /\ ScanFrame

CallLengthUpTo ==
    \E k \in 0 .. MaxLimit :
        /\ last' = Call("lengthUpTo", k, data.a, lengthUpTo(mem, data.a, k))
        /\ UNCHANGED data /\ ScanFrame

CallIndexOf ==
    \E c \in Units :
        /\ last' = Call("indexOf", c, data.a, indexOf(mem, data.a, c))
        /\ UNCHANGED data /\ ScanFrame

CallEquals ==
    /\ last' = Call("operator==", data.b, data.a, opEquals(data.a, data.b))
    /\ UNCHANGED data /\ ScanFrame

CallNotEquals ==
    /\ last' = Call("operator!=", data.b, data.a, opNotEquals(data.a, data.b))
    /\ UNCHANGED data /\ ScanFrame

NextScan ==
    \/ Increment
    \/ Decrement
    \/ Assign
    \/ CallLength
    \/ CallLengthUpTo
    \/ CallIndexOf
    \/ CallEquals
    \/ CallNotEquals

SpecScan == InitScan /\ [][NextScan]_vars

-----------------------------------------------------------------------------
(* Writes: a terminated source text in buffer 0 and a destination buffer   *)
(* in buffer 1, allocated by the caller with `end - Base(1)` units.  The   *)
(* caller keeps the contract of each call: a unit written lies inside the  *)
(* destination, and a copy is made only into storage sized beforehand with *)
(* sizeInBytes (or with the limit passed).                                 *)

WriteTexts ==
    { Heap(2 * Stride, t, CopyLen) : t \in [0 .. CopyLen - 1 -> 0 .. MaxChar] }

InitWrite ==
    /\ mem \in WriteTexts
    /\ \E n \in 1 .. CopyLen + 1 :
           data = [src |-> Base(0), dst |-> Base(1), end |-> Base(1) + n]
    /\ last = NoCall
    /\ run = NoRun
    /\ shared = 0
    /\ cur = <<>>
    /\ pc = <<>>
    /\ got = <<>>
    /\ seen = <<>>

WriteFrame == UNCHANGED <<shared, cur, pc, got, seen>>
Room == data.end - data.dst
StartRun(op) == [op |-> op, start |-> data.dst, chars |-> <<>>, closed |-> FALSE]

CallWrite ==
    \E c \in 0 .. MaxChar :
        /\ Room >= 1
        /\ mem' = write(mem, data.dst, c).mem
        /\ data' = [data EXCEPT !.dst = write(mem, data.dst, c).data]
        /\ last' = Call("write", c, data.dst, 0)
        /\ run' = IF run.op = "write"
                  THEN [run EXCEPT !.chars = Append(@, c), !.closed = FALSE]
                  ELSE [StartRun("write") EXCEPT !.chars = <<c>>]
        /\ WriteFrame

CallWriteNull ==
    /\ Room >= 1
    /\ mem' = writeNull(mem, data.dst).mem
    /\ data' = [data EXCEPT !.dst = writeNull(mem, data.dst).data]
    /\ last' = Call("writeNull", 0, data.dst, 0)
    /\ run' = [run EXCEPT !.closed = TRUE]
    /\ WriteFrame

CallWriteAll ==
    /\ sizeInBytes(mem, data.src) <= unitWidth * Room
    /\ mem' = writeAll(mem, data.dst, data.src).mem
    /\ data' = [data EXCEPT !.dst = writeAll(mem, data.dst, data.src).data]
    /\ last' = Call("writeAll", 0, data.dst, 0)
    /\ run' = StartRun("writeAll")
    /\ WriteFrame

CallWriteAllGeneric ==
    /\ sizeInBytes(mem, data.src) <= unitWidth * Room
    /\ mem' = writeAllGeneric(mem, data.dst, data.src).mem
    /\ data' = [data EXCEPT
                   !.dst = writeAllGeneric(mem, data.dst, data.src).data]
    /\ last' = Call("writeAll", 0, data.dst, 0)
    /\ run' = StartRun("writeAll")
    /\ WriteFrame

CallWriteWithCharLimit ==
    \E k \in 0 .. Room :
        /\ mem' = writeWithCharLimit(mem, data.dst, data.src, k).mem
        /\ data' = [data EXCEPT
                       !.dst = writeWithCharLimit(mem, data.dst, data.src, k).data]
        /\ last' = Call("writeWithCharLimit", k, data.dst, 0)
        /\ run' = StartRun("writeWithCharLimit")
        /\ WriteFrame

(* Compare the text the current run of writes produced with the source,    *)
(* once it is terminated.                                                  *)
CallCompare ==
    /\ run.op # "none"
    /\ run.closed
    /\ last' = Call("compare", data.src, run.start,
                    compare(mem, run.start, data.src))
    /\ UNCHANGED <<mem, data, run>>
    /\ WriteFrame

CallSizeInBytes ==
    /\ last' = Call("sizeInBytes", 0, data.src, sizeInBytes(mem, data.src))
    /\ UNCHANGED <<mem, data, run>>
    /\ WriteFrame

CallGetBytesRequiredFor ==
    /\ last' = Call("getBytesRequiredFor", 0, data.src,
                    getBytesRequiredFor(mem, data.src))
    /\ UNCHANGED <<mem, data, run>>
    /\ WriteFrame

NextWrite ==
    \/ CallWrite
    \/ CallWriteNull
    \/ CallWriteAll
    \/ CallWriteAllGeneric
    \/ CallWriteWithCharLimit
    \/ CallCompare
    \/ CallSizeInBytes
    \/ CallGetBytesRequiredFor

SpecWrite == InitWrite /\ [][NextWrite]_vars

-----------------------------------------------------------------------------
(* Publishing: the shared cursor wraps buffer 0 (the old text).  One       *)
(* writer builds a new text in buffer 1 with write, terminates it with     *)
(* writeNull and then calls atomicSwap on the shared cursor.  Each reader  *)
(* copies the shared cursor once and scans its copy with getAndAdvance up  *)
(* to the terminator.                                                      *)

Writer == NumReaders + 1
Readers == 1 .. NumReaders
OldBuf == Base(0)
NewBuf == Base(1)

OldTexts ==
    { Heap(2 * Stride, [i \in 0 .. n - 1 |-> 1], n) : n \in 0 .. PubLen }

InitPublish ==
    /\ mem \in OldTexts
    /\ shared = OldBuf
    /\ cur = [t \in {Writer} \cup Readers |-> IF t = Writer THEN NewBuf ELSE 0]
    /\ pc = [t \in {Writer} \cup Readers |-> IF t = Writer THEN "build" ELSE "load"]
    /\ got = [t \in {Writer} \cup Readers |-> 0]
    /\ seen = [t \in {Writer} \cup Readers |-> <<>>]
    /\ data = <<>>
    /\ last = NoCall
    /\ run = NoRun

PublishFrame == UNCHANGED <<data, last, run>>

WriterWrite ==
    \E c \in Chars :
        /\ pc[Writer] = "build"
        /\ cur[Writer] < NewBuf + PubLen
        /\ mem' = write(mem, cur[Writer], c).mem
        /\ cur' = [cur EXCEPT ![Writer] = write(mem, cur[Writer], c).data]
        /\ UNCHANGED <<shared, pc, got, seen>>
        /\ PublishFrame

WriterTerminate ==
    /\ pc[Writer] = "build"
    /\ mem' = writeNull(mem, cur[Writer]).mem
    /\ cur' = [cur EXCEPT ![Writer] = writeNull(mem, cur[Writer]).data]
    /\ pc' = [pc EXCEPT ![Writer] = "swap"]
    /\ UNCHANGED <<shared, got, seen>>
    /\ PublishFrame

WriterSwap ==
    /\ pc[Writer] = "swap"
    /\ shared' = atomicSwap(shared, NewBuf).data
    /\ got' = [got EXCEPT ![Writer] = atomicSwap(shared, NewBuf).returned]
    /\ pc' = [pc EXCEPT ![Writer] = "done"]
    /\ UNCHANGED <<mem, cur, seen>>
    /\ PublishFrame

(* The reader's copy reads the pointer-sized word of the shared cursor in  *)
(* one load.                                                               *)
ReaderLoad(r) ==
    /\ pc[r] = "load"
    /\ cur' = [cur EXCEPT ![r] = copy(shared)]
    /\ got' = [got EXCEPT ![r] = copy(shared)]
    /\ pc' = [pc EXCEPT ![r] = "scan"]
    /\ UNCHANGED <<mem, shared, seen>>
    /\ PublishFrame

ReaderScan(r) ==
    /\ pc[r] = "scan"
    /\ cur' = [cur EXCEPT ![r] = getAndAdvance(mem, cur[r]).data]
    /\ seen' = [seen EXCEPT ![r] = Append(@, getAndAdvance(mem, cur[r]).c)]
    /\ pc' = [pc EXCEPT ![r] =
                 IF getAndAdvance(mem, cur[r]).c = 0 THEN "done" ELSE "scan"]
    /\ UNCHANGED <<mem, shared, got>>
    /\ PublishFrame

NextPublish ==
    \/ WriterWrite
    \/ WriterTerminate
    \/ WriterSwap
    \/ \E r \in Readers : ReaderLoad(r)
    \/ \E r \in Readers : ReaderScan(r)

SpecPublish == InitPublish /\ [][NextPublish]_vars

-----------------------------------------------------------------------------
(* Swapping: the shared cursor wraps buffer 0; thread t owns buffer t,     *)
(* which holds a terminated text, and calls atomicSwap on the shared       *)
(* cursor with a cursor to it, then reads the character under the cursor   *)
(* it got back.                                                            *)

Swappers == 1 .. NumSwappers

SwapHeap ==
    [a \in 0 .. (NumSwappers + 1) * Stride - 1 |->
        IF a % Stride = 0 THEN 1 + ((a \div Stride) % MaxChar)
        ELSE IF a % Stride = 1 THEN 0 ELSE Fill]

InitSwap ==
    /\ mem = SwapHeap
    /\ shared = Base(0)
    /\ cur = [t \in Swappers |-> Base(t)]
    /\ pc = [t \in Swappers |-> "swap"]
    /\ got = [t \in Swappers |-> 0]
    /\ seen = [t \in Swappers |-> <<>>]
    /\ data = <<>>
    /\ last = NoCall
    /\ run = NoRun

CallAtomicSwap(t) ==
    /\ pc[t] = "swap"
    /\ shared' = atomicSwap(shared, cur[t]).data
    /\ got' = [got EXCEPT ![t] = atomicSwap(shared, cur[t]).returned]
    /\ pc' = [pc EXCEPT ![t] = "read"]
    /\ UNCHANGED <<mem, cur, seen>>
    /\ PublishFrame

ReadReturned(t) ==
    /\ pc[t] = "read"
    /\ seen' = [seen EXCEPT ![t] = <<deref(mem, got[t])>>]
    /\ pc' = [pc EXCEPT ![t] = "done"]
    /\ UNCHANGED <<mem, shared, cur, got>>
    /\ PublishFrame

NextSwap ==
    \/ \E t \in Swappers : CallAtomicSwap(t)
    \/ \E t \in Swappers : ReadReturned(t)

SpecSwap == InitSwap /\ [][NextSwap]_vars

-----------------------------------------------------------------------------
(* Properties of the scans (SpecScan).                                     *)

\* C5: for a terminated string s and a cap k, length(s) is the number of
\* characters strictly before the first terminator from the cursor,
\* lengthUpTo(s, k) <= k, lengthUpTo(s, k) = min(length(s), k), and
\* lengthUpTo(s, length(s) + 1) = length(s); neither call moves the cursor.
C5_LengthAndLengthUpTo ==
    LET n == CharsBefore(mem, last.at)
    IN  /\ last.op = "length" =>
              /\ last.ret = n
              /\ data.a = last.at
        /\ last.op = "lengthUpTo" =>
              /\ last.ret <= last.arg
              /\ last.ret = Min(n, last.arg)
              /\ (last.arg = length(mem, last.at) + 1
                     => last.ret = length(mem, last.at))
              /\ data.a = last.at

\* Reached: lengthUpTo called mid-string with a cap below the length, so the
\* scan stopped before the terminator.
C5_CapReachedFirst ==
    /\ last.op = "lengthUpTo"
    /\ last.at > Base(0)
    /\ last.arg > 0
    /\ last.arg < CharsBefore(mem, last.at)

\* C6: indexOf(target) returns the offset from the cursor of the first
\* character equal to target, which lies before the terminator, and -1
\* exactly when no character before the terminator equals target; searching
\* for 0 returns -1.
C6_IndexOfFirstMatch ==
    last.op = "indexOf" =>
        LET n == CharsBefore(mem, last.at)
            hits == { i \in 0 .. n - 1 : mem[last.at + i] = last.arg }
        IN  /\ (last.ret = -1) <=> (hits = {})
            /\ last.ret # -1 =>
                  /\ last.ret \in hits
                  /\ \A j \in hits : last.ret <= j
            /\ last.arg = 0 => last.ret = -1

\* Reached: a search that finds its target at an offset above 0, the same
\* character also occurring later in the string.
C6_FoundPastFirst ==
    /\ last.op = "indexOf"
    /\ last.ret > 0
    /\ \E j \in last.ret + 1 .. CharsBefore(mem, last.at) - 1 :
           mem[last.at + j] = last.arg

\* Reached: a search from an advanced cursor that finds its target at an
\* offset above 0, counted from the cursor.
C6_FoundFromAdvancedCursor ==
    /\ last.op = "indexOf"
    /\ last.at > Base(0)
    /\ last.ret > 0

\* Reached: a search for the terminator value itself.
C6_SearchForZero ==
    /\ last.op = "indexOf"
    /\ last.arg = 0
    /\ CharsBefore(mem, last.at) > 0

\* C9: operator!= is the complement of operator==: a != b is true exactly
\* when the two cursors hold different addresses.
C9_NotEqualsIsComplement ==
    last.op = "operator!=" =>
        /\ last.ret = ~ opEquals(last.at, last.arg)
        /\ last.ret = (last.at # last.arg)

\* What operator== does: true exactly when the addresses are the same.
EqualsIsPointerComparison ==
    last.op = "operator==" => last.ret = (last.at = last.arg)

-----------------------------------------------------------------------------
(* Properties of the writes (SpecWrite).                                   *)

\* C3: writeAll(src) followed by writeNull() where writeAll left the cursor
\* makes the destination hold src's characters followed by a terminator, the
\* cursor having advanced by exactly length(src); comparing the destination's
\* start with src then yields 0.
C3_WriteAllRoundTrip ==
    (run.op = "writeAll" /\ run.closed) =>
        LET n == CharsBefore(mem, data.src)
        IN  /\ data.dst = run.start + n
            /\ \A i \in 0 .. n - 1 : mem[run.start + i] = mem[data.src + i]
            /\ mem[run.start + n] = 0
            /\ last.op = "compare" => last.ret = 0

\* Reached: the longest source copied, terminated and compared.
C3_CopiedAndCompared ==
    /\ run.op = "writeAll"
    /\ run.closed
    /\ last.op = "compare"
    /\ CharsBefore(mem, data.src) = CopyLen

\* C4: writeWithCharLimit(src, k) writes at most k units in total, the
\* terminator included, and leaves before the terminator the first
\* min(length(src), k - 1) characters of src, for every limit k.
C4_CharLimitNeverExceeded ==
    (last.op = "writeWithCharLimit") =>
        LET k == last.arg
            n == CharsBefore(mem, data.src)
            copied == data.dst - run.start
        IN  /\ copied + 1 <= k
            /\ mem[data.dst] = 0
            /\ copied = Min(n, k - 1)
            /\ \A i \in 0 .. copied - 1 :
                   mem[run.start + i] = mem[data.src + i]

\* The same for the limits of at least 1.
CharLimitFromOne ==
    (last.op = "writeWithCharLimit" /\ last.arg >= 1) =>
        LET k == last.arg
            n == CharsBefore(mem, data.src)
            copied == data.dst - run.start
        IN  /\ copied + 1 <= k
            /\ mem[data.dst] = 0
            /\ copied = Min(n, k - 1)
            /\ \A i \in 0 .. copied - 1 :
                   mem[run.start + i] = mem[data.src + i]

\* C7 (steps): write(c) stores c under the cursor, advances the cursor by
\* one and changes no other unit; writeNull() stores zero under the cursor,
\* leaves the cursor where it is and changes no other unit.
WriteStep ==
    /\ last'.op = "write" =>
          /\ mem' = [mem EXCEPT ![data.dst] = last'.arg]
          /\ data' = [data EXCEPT !.dst = data.dst + 1]
    /\ last'.op = "writeNull" =>
          /\ mem' = [mem EXCEPT ![data.dst] = 0]
          /\ data' = data

\* C7 (runs): after n write calls followed by writeNull the buffer holds the
\* n written characters in order followed by a terminator.
RunOfWrites ==
    (run.op = "write" /\ run.closed) =>
        /\ \A i \in 1 .. Len(run.chars) :
               mem[run.start + i - 1] = run.chars[i]
        /\ mem[run.start + Len(run.chars)] = 0
        /\ data.dst = run.start + Len(run.chars)

\* C7: write(c) stores c under the cursor, advances by exactly one character
\* and changes no other unit (it writes no terminator); writeNull() stores
\* zero under the cursor without moving it or changing another unit; hence n
\* write calls followed by writeNull leave the n characters and a terminator.
C7_WriteAndWriteNull == [] RunOfWrites /\ [][WriteStep]_vars

\* Reached: two or more characters written one by one, then terminated, then
\* the terminator overwritten by a further character and written again.
C7_WrittenAndTerminated ==
    /\ run.op = "write"
    /\ run.closed
    /\ last.op = "writeNull"
    /\ Len(run.chars) >= 2
    /\ data.dst = data.end - 1

\* C8: sizeInBytes(s) = (length(s) + 1) * unitWidth, getBytesRequiredFor(s) =
\* length(s) * unitWidth, so sizeInBytes(s) = getBytesRequiredFor(s) +
\* unitWidth; and writeAll(src) followed by writeNull() into storage of
\* sizeInBytes(src) bytes stays inside it and uses exactly those bytes.
C8_SizeInBytes ==
    LET n == CharsBefore(mem, data.src)
    IN  /\ last.op = "sizeInBytes" =>
              /\ last.ret = (n + 1) * unitWidth
              /\ last.ret = getBytesRequiredFor(mem, data.src) + unitWidth
        /\ last.op = "getBytesRequiredFor" => last.ret = n * unitWidth
        /\ run.op = "writeAll" =>
              /\ data.dst < data.end
              /\ (data.dst + 1 - run.start) * unitWidth
                     = (n + 1) * unitWidth

\* Reached: the longest source copied and terminated in a destination of
\* exactly sizeInBytes(src) bytes, its last unit holding the terminator.
C8_TightFit ==
    /\ run.op = "writeAll"
    /\ run.closed
    /\ run.start = Base(1)
    /\ CharsBefore(mem, data.src) = CopyLen
    /\ (data.end - Base(1)) * unitWidth = sizeInBytes(mem, data.src)
    /\ data.dst = data.end - 1

-----------------------------------------------------------------------------
(* Properties of atomicSwap (SpecPublish, SpecSwap).                       *)

\* C1: with one writer that builds and terminates the new buffer and then
\* calls atomicSwap, every pointer a reader loads from the shared cursor is
\* exactly the old buffer's or exactly the new buffer's, and the string the
\* reader scans from it is fully terminated: the scan yields that buffer's
\* characters and stops at its terminator.
C1_ReadersLoadOldOrNew ==
    \A r \in Readers :
        pc[r] # "load" =>
            /\ got[r] \in {OldBuf, NewBuf}
            /\ Terminated(mem, got[r])
            /\ cur[r] = got[r] + Len(seen[r])
            /\ Len(seen[r]) <= CharsBefore(mem, got[r]) + 1
            /\ \A i \in 1 .. Len(seen[r]) : seen[r][i] = mem[got[r] + i - 1]
            /\ pc[r] = "done" <=> Len(seen[r]) = CharsBefore(mem, got[r]) + 1

\* Reached: one reader loaded the old pointer and is still scanning while
\* another, having loaded the new pointer after the swap, has scanned a
\* non-empty new text to its terminator.
C1_OldAndNewReaders ==
    \E r1, r2 \in Readers :
        /\ got[r1] = OldBuf /\ pc[r1] = "scan" /\ Len(seen[r1]) >= 1
        /\ got[r2] = NewBuf /\ pc[r2] = "done" /\ Len(seen[r2]) >= 2

(* The step in which the writer's atomicSwap call happens.                 *)
SwapStep == pc[Writer] = "swap" /\ pc'[Writer] = "done"

SwapFrame ==
    /\ SwapStep =>
          /\ got'[Writer] = shared
          /\ shared' = NewBuf
          /\ deref(mem', shared') = mem[NewBuf]
          /\ TextAt(mem', shared') = TextAt(mem, NewBuf)
          /\ \A r \in Readers : cur'[r] = cur[r] /\ got'[r] = got[r]
          /\ mem' = mem
    /\ \A a \in OldBuf .. Guard(0) : mem'[a] = mem[a]

CopiesKeepReadingOld ==
    \A r \in Readers :
        (pc[r] # "load" /\ got[r] = OldBuf) =>
            /\ cur[r] = OldBuf + Len(seen[r])
            /\ \A i \in 1 .. Len(seen[r]) : seen[r][i] = mem[OldBuf + i - 1]

\* C2: atomicSwap returns a cursor wrapping the pointer held just before the
\* call and leaves the swapped cursor dereferencing into B's content; a
\* cursor copied from it before the swap, at whatever offset in A, keeps its
\* position and keeps producing A's characters; the contents of A and B are
\* unchanged by the swap.
C2_SwapLeavesCopiesAndBuffers == [] CopiesKeepReadingOld /\ [][SwapFrame]_vars

\* Reached: the swap has happened while a copy made before it is mid-A, has
\* produced some of A's characters and has more of them to produce.
C2_CopyMidOldAfterSwap ==
    /\ pc[Writer] = "done"
    /\ shared = NewBuf
    /\ got[Writer] = OldBuf
    /\ \E r \in Readers :
           /\ got[r] = OldBuf
           /\ pc[r] = "scan"
           /\ Len(seen[r]) >= 1
           /\ Len(seen[r]) < CharsBefore(mem, OldBuf)

AllPointers == { Base(r) : r \in 0 .. NumSwappers }

\* C10: when several threads call atomicSwap on the same cursor, each with a
\* distinct new pointer, then once all calls have returned the pointers
\* returned together with the pointer the cursor holds are the initial
\* pointer and all the supplied ones, each once, and no caller got back the
\* pointer it supplied.
C10_NoPointerLostOrHandedOutTwice ==
    (\A t \in Swappers : pc[t] # "swap") =>
        /\ {shared} \cup { got[t] : t \in Swappers } = AllPointers
        /\ \A t, u \in Swappers : t # u => got[t] # got[u]
        /\ \A t \in Swappers : got[t] # shared
        /\ \A t \in Swappers : got[t] # cur[t]

\* Reached: all calls have returned, and the last thread's call came first
\* (it got the initial pointer back) while the first thread's came last.
C10_AllReturned ==
    /\ \A t \in Swappers : pc[t] = "done"
    /\ got[NumSwappers] = Base(0)
    /\ shared = Base(1)

====
